---- MODULE Spec2Model ----
(***************************************************************************)
(* Thread-coordination layer of mylib (src/mylib.c, src/mylib.h): the      *)
(* ThreadFactory's shared slot, the per-thread ThreadControl, the          *)
(* collective malloc/free built on the sync callback, and the dot-product   *)
(* kernel, run by tsize threads in SPMD style.  The sync callback is the    *)
(* OpenMP barrier of src/with_openmp.c; the C++11 Barrier of               *)
(* src/with_cpp11threads.cpp and pthread_sync of src/with_pthread.c are     *)
(* modelled statement by statement in specifications of their own.          *)
(***************************************************************************)
EXTENDS Integers, Sequences, FiniteSets, TLC

\* ---- bounds of the model ------------------------------------------------
MaxThreads == 3      \* tsize ranges over 1..MaxThreads
MaxVSize   == 3      \* vsize ranges over 0..MaxVSize
MaxCalls   == 2      \* consecutive collective calls per thread
NumAddr    == 2      \* heap addresses malloc can hand out
MaxT       == 5      \* tsize ranges over 1..MaxT in the vector_add runs
MaxN       == 10     \* vsize ranges over 0..MaxN in the vector_add runs
MaxPhases  == 3      \* sync calls per thread in the runs of one sync callback

NULL  == 0
Undef == -1          \* marker of an indeterminate (never written) memory cell
Addr  == 1..NumAddr
Vals  == {1, 2}      \* values of the input vectors' entries
Garbage == {0, 7}    \* what a read of an indeterminate cell may yield
Ops   == {"dot", "mf"}  \* vector_dot, or shared_malloc followed by shared_free

VARIABLES
  tsize,          \* tcontrol->tsize, the same in every ThreadControl
  vsize,          \* length of v1 and v2
  v1, v2,         \* the input vectors, indexed 0..vsize-1
  prog,           \* the collective each thread calls in its k-th call
  ncalls,         \* number of collective calls each thread makes
  pc,             \* pc[t]: position of thread t
  round,          \* round[t]: number of collective calls thread t has begun
  thread_results, \* thread_results[t]: the local pointer filled by malloc
  i,              \* i[t]: the loop variable of thread t
  shared_data,    \* tfactory->shared_data
  heap,           \* heap[a]: block at address a (live, owner call, cells)
  dotresult,      \* *dotresult, the caller's output location
  bstate,         \* bstate[t]: thread t's position inside the barrier
  lastAlloc,      \* history: call and address of thread 0's latest malloc
  frees,          \* history: frees[k] = number of times call k's block was freed
  dotCall,        \* history: call in which *dotresult was last written
  badAccess,      \* history: some load or store went to a block that was not live
  oob,            \* history: some access went outside the bounds of a vector
  vresult,        \* the output vector of mylib_vector_add
  writers,        \* history: writers[k] = the threads that wrote vresult[k], in order
  sync,           \* tfactory->sync, the registered callback
  sync_data,      \* tfactory->sync_data
  main_pc,        \* position of the driver's main thread
  stall,          \* the barrier one thread never reaches, if any
  bpc,            \* bpc[t]: position of thread t inside the sync callback
  entered,        \* history: entered[t] = sync calls thread t has begun
  exited,         \* history: exited[t] = sync calls thread t has returned from
  mutex_,         \* the threads holding the callback's mutex (none or one)
  threads_left_,  \* Barrier::threads_left_
  counter_,       \* Barrier::counter_
  ctr,            \* ctr[t]: the local of Barrier::wait
  cond_waiters,   \* the threads blocked in condition_.wait
  barrier,        \* the pthread_barrier_t: initialised or not, threads blocked on it
  status_counter, \* PthreadBarrierData::status_counter, an unsigned char
  status,         \* status[t]: the local of pthread_sync
  misuse          \* history: a pthread_barrier_t was used against its contract

vars == <<tsize, vsize, v1, v2, prog, pc, round, thread_results, i,
          shared_data, heap, dotresult, bstate, lastAlloc, frees, dotCall,
          badAccess, oob, ncalls, vresult, writers,
          sync, sync_data, main_pc, stall, bpc, entered, exited, mutex_,
          threads_left_, counter_, ctr, cond_waiters, barrier, status_counter,
          status, misuse>>

\* the driver's side of the factory, and the state of the callbacks of the
\* other two drivers: no collective of mylib.c writes any of them
driver == <<sync, sync_data, main_pc, stall>>
callback == <<bpc, entered, exited, mutex_, threads_left_, counter_, ctr,
              cond_waiters, barrier, status_counter, status, misuse>>

inputs == <<tsize, vsize, v1, v2, prog, ncalls>>
addstate == <<vresult, writers>>
memflags == <<badAccess, oob>>

Threads == 0..(tsize - 1)

\* ---- pure helpers -------------------------------------------------------

\* C integer division (truncation toward zero), divisor > 0
CDiv(a, b) == IF a >= 0 THEN a \div b ELSE -((-a) \div b)

\* variant: rounds the quotient down instead of up
elements_per_thread_floor(vs, ts) == CDiv(vs, ts)

elements_per_thread(vs, ts) == CDiv(vs - 1, ts) + 1

\* variant: every thread starts one element early
begin_index_early(tid, vs, ts) ==
  IF tid = 0 THEN 0 ELSE tid * elements_per_thread(vs, ts) - 1

\* variant: every thread starts at the first element
begin_index_zero(tid, vs, ts) == 0 * elements_per_thread(vs, ts)

begin_index(tid, vs, ts) == tid * elements_per_thread(vs, ts)

\* variant: the end of the range is not clamped to vsize
end_index_noclamp(tid, vs, ts) == (tid + 1) * elements_per_thread(vs, ts)

end_index(tid, vs, ts) ==
  LET e == (tid + 1) * elements_per_thread(vs, ts)
  IN  IF e > vs THEN vs ELSE e

\* the indices the loop "for (i = begin_index; i < end_index; ++i)" visits
Range(tid, vs, ts) ==
  {k \in 0..(vs - 1) : begin_index(tid, vs, ts) <= k /\ k < end_index(tid, vs, ts)}

RECURSIVE SumProd(_, _, _)
SumProd(a, b, S) ==
  IF S = {} THEN 0
  ELSE LET k == CHOOSE x \in S : TRUE
       IN  a[k] * b[k] + SumProd(a, b, S \ {k})

EmptyCells == [j \in 0..(tsize - 1) |-> Undef]

\* ---- memory -------------------------------------------------------------
Valid(p) == p \in Addr /\ heap[p].live

\* values a load of cell j of block p can produce
Load(p, j) ==
  IF Valid(p) /\ heap[p].data[j] # Undef THEN {heap[p].data[j]} ELSE Garbage

\* values a load of element k of vector v can produce
Elem(v, k) == IF k \in DOMAIN v THEN {v[k]} ELSE Garbage

\* heap after a store of v to cell j of block p
Store(p, j, v) ==
  IF Valid(p) THEN [heap EXCEPT ![p].data[j] = v] ELSE heap

\* ---- the sync callback: "#pragma omp barrier" ---------------------------
Waiting == {u \in Threads : bstate[u] = "wait"}

\* one step of thread t inside the barrier: it arrives (and, being the last
\* of tsize, releases everybody) or, once released, it leaves
openmp_sync(t) ==
  \/ /\ bstate[t] = "out"
     /\ bstate' = IF Cardinality(Waiting) = tsize - 1
                  THEN [u \in Threads |-> IF u \in Waiting \/ u = t
                                          THEN "go" ELSE bstate[u]]
                  ELSE [bstate EXCEPT ![t] = "wait"]
  \/ /\ bstate[t] = "go"
     /\ bstate' = [bstate EXCEPT ![t] = "out"]

\* the step of openmp_sync(t) taken now is the one that returns to the caller
SyncReturns(t) == bstate[t] = "go"

\* sync without a barrier: returns at once
NoSync(t, next, inext) ==
  /\ pc' = [pc EXCEPT ![t] = next]
  /\ i'  = [i EXCEPT ![t] = inext]
  /\ UNCHANGED bstate

\* mylib_ThreadControl_sync(tcontrol) called by thread t; on return the
\* thread continues at next with loop variable inext
mylib_ThreadControl_sync(t, next, inext) ==
  /\ openmp_sync(t)
  /\ pc' = IF SyncReturns(t) THEN [pc EXCEPT ![t] = next] ELSE pc
  /\ i'  = IF SyncReturns(t) THEN [i EXCEPT ![t] = inext] ELSE i

\* ---- drivers ------------------------------------------------------------
CanCall(t) == pc[t] \in {"start", "returned"} /\ round[t] < ncalls

\* a thread enters mylib_vector_dot: thread_results = NULL, then malloc
Dot_call(t) ==
  /\ CanCall(t) /\ prog[round[t] + 1] = "dot"
  /\ round' = [round EXCEPT ![t] = @ + 1]
  /\ thread_results' = [thread_results EXCEPT ![t] = NULL]
  /\ pc' = [pc EXCEPT ![t] = "m_sync1"]
  /\ UNCHANGED <<inputs, driver, callback,
                 addstate, i, shared_data, heap, dotresult, bstate, lastAlloc,
                 frees, dotCall, memflags>>

\* a thread begins a shared_malloc immediately followed by shared_free
MF_call(t) ==
  /\ CanCall(t) /\ prog[round[t] + 1] = "mf"
  /\ round' = [round EXCEPT ![t] = @ + 1]
  /\ thread_results' = [thread_results EXCEPT ![t] = NULL]
  /\ pc' = [pc EXCEPT ![t] = "m_sync1"]
  /\ UNCHANGED <<inputs, driver, callback,
                 addstate, i, shared_data, heap, dotresult, bstate, lastAlloc,
                 frees, dotCall, memflags>>

\* ---- mylib_ThreadControl_malloc -----------------------------------------
\* variant: the test "tid == 0" is missing, every thread allocates
Malloc_sync1_all(t) ==
  /\ pc[t] = "m_sync1"
  /\ mylib_ThreadControl_sync(t, "m_alloc", i[t])
  /\ UNCHANGED <<inputs, driver, callback,
                 addstate, round, thread_results, shared_data, heap, dotresult,
                 lastAlloc, frees, dotCall, memflags>>

Malloc_sync1(t) ==
  /\ pc[t] = "m_sync1"
  /\ mylib_ThreadControl_sync(t, IF t = 0 THEN "m_alloc" ELSE "m_sync2", i[t])
  /\ UNCHANGED <<inputs, driver, callback,
                 addstate, round, thread_results, shared_data, heap, dotresult,
                 lastAlloc, frees, dotCall, memflags>>

\* thread 0: shared_data = malloc(num_bytes); malloc hands out any free block
Malloc_alloc(t) ==
  /\ pc[t] = "m_alloc"
  /\ \E a \in Addr :
       /\ ~heap[a].live
       /\ heap' = [heap EXCEPT ![a] = [live |-> TRUE, owner |-> round[t],
                                      data |-> EmptyCells]]
       /\ shared_data' = a
       /\ lastAlloc' = [call |-> round[t], addr |-> a]
  /\ pc' = [pc EXCEPT ![t] = "m_sync2"]
  /\ UNCHANGED <<inputs, driver, callback,
                 addstate, round, thread_results, i, dotresult, bstate, frees,
                 dotCall, memflags>>

\* variant: the second barrier of malloc is missing
Malloc_sync2_skip(t) ==
  /\ pc[t] = "m_sync2"
  /\ NoSync(t, "m_ret", i[t])
  /\ UNCHANGED <<inputs, driver, callback,
                 addstate, round, thread_results, shared_data, heap, dotresult,
                 lastAlloc, frees, dotCall, memflags>>

Malloc_sync2(t) ==
  /\ pc[t] = "m_sync2"
  /\ mylib_ThreadControl_sync(t, "m_ret", i[t])
  /\ UNCHANGED <<inputs, driver, callback,
                 addstate, round, thread_results, shared_data, heap, dotresult,
                 lastAlloc, frees, dotCall, memflags>>

\* *ptr = shared_data; return to the caller
Malloc_ret(t) ==
  /\ pc[t] = "m_ret"
  /\ thread_results' = [thread_results EXCEPT ![t] = shared_data]
  /\ pc' = [pc EXCEPT ![t] = IF prog[round[t]] = "dot" THEN "d_zero" ELSE "f_sync"]
  /\ UNCHANGED <<inputs, driver, callback,
                 addstate, round, i, shared_data, heap, dotresult, bstate,
                 lastAlloc, frees, dotCall, memflags>>

\* ---- mylib_ThreadControl_free -------------------------------------------
\* variant: the barrier of free sits inside "if (tid == 0)"
Free_sync_inside_if(t) ==
  /\ pc[t] = "f_sync"
  /\ IF t = 0
     THEN mylib_ThreadControl_sync(t, "f_free", i[t])
     ELSE NoSync(t, "returned", i[t])
  /\ UNCHANGED <<inputs, driver, callback,
                 addstate, round, thread_results, shared_data, heap, dotresult,
                 lastAlloc, frees, dotCall, memflags>>

\* variant: the test "tid == 0" is missing, every thread frees
Free_sync_all(t) ==
  /\ pc[t] = "f_sync"
  /\ mylib_ThreadControl_sync(t, "f_free", i[t])
  /\ UNCHANGED <<inputs, driver, callback,
                 addstate, round, thread_results, shared_data, heap, dotresult,
                 lastAlloc, frees, dotCall, memflags>>

\* variant: a thread with tid /= 0 returns only once the block is released
Free_sync_waits(t) ==
  /\ pc[t] = "f_sync"
  /\ (t /= 0 /\ bstate[t] = "go") => ~Valid(thread_results[t])
  /\ mylib_ThreadControl_sync(t, IF t = 0 THEN "f_free" ELSE "returned", i[t])
  /\ UNCHANGED <<inputs, driver, callback,
                 addstate, round, thread_results, shared_data, heap, dotresult,
                 lastAlloc, frees, dotCall, memflags>>

Free_sync(t) ==
  /\ pc[t] = "f_sync"
  /\ mylib_ThreadControl_sync(t, IF t = 0 THEN "f_free" ELSE "returned", i[t])
  /\ UNCHANGED <<inputs, driver, callback,
                 addstate, round, thread_results, shared_data, heap, dotresult,
                 lastAlloc, frees, dotCall, memflags>>

\* thread 0: free(ptr)
Free_free(t) ==
  /\ pc[t] = "f_free"
  /\ LET p == thread_results[t] IN
       IF p \in Addr
       THEN /\ heap' = [heap EXCEPT ![p].live = FALSE, ![p].data = EmptyCells]
            /\ frees' = [frees EXCEPT ![heap[p].owner] = @ + 1]
       ELSE UNCHANGED <<heap, frees>>   \* free(NULL) does nothing
  /\ pc' = [pc EXCEPT ![t] = "returned"]
  /\ UNCHANGED <<inputs, driver, callback,
                 addstate, round, thread_results, i, shared_data, dotresult,
                 bstate, lastAlloc, dotCall, memflags>>

\* variant: a store through an invalid address goes unnoticed
Dot_zero_checked(t) ==
  /\ pc[t] = "d_zero"
  /\ heap' = Store(thread_results[t], t, 0)
  /\ badAccess' = badAccess
  /\ oob' = oob
  /\ i' = [i EXCEPT ![t] = begin_index(t, vsize, tsize)]
  /\ pc' = [pc EXCEPT ![t] = "d_acc"]
  /\ UNCHANGED <<inputs, driver, callback,
                 addstate, round, thread_results, shared_data, dotresult, bstate,
                 lastAlloc, frees, dotCall>>

\* ---- mylib_vector_dot ----------------------------------------------------
\* thread_results[tid] = 0, then the index computation
Dot_zero(t) ==
  /\ pc[t] = "d_zero"
  /\ heap' = Store(thread_results[t], t, 0)
  /\ badAccess' = (badAccess \/ ~Valid(thread_results[t]))
  /\ oob' = oob
  /\ i' = [i EXCEPT ![t] = begin_index(t, vsize, tsize)]
  /\ pc' = [pc EXCEPT ![t] = "d_acc"]
  /\ UNCHANGED <<inputs, driver, callback,
                 addstate, round, thread_results, shared_data, dotresult, bstate,
                 lastAlloc, frees, dotCall>>

\* variant: the products are replaced by sums
Dot_acc_sum(t) ==
  /\ pc[t] = "d_acc"
  /\ IF i[t] < end_index(t, vsize, tsize)
     THEN /\ \E x \in Load(thread_results[t], t), a \in Elem(v1, i[t]), b \in Elem(v2, i[t]) :
               heap' = Store(thread_results[t], t, x + a + b)
          /\ badAccess' = (badAccess \/ ~Valid(thread_results[t]))
          /\ oob' = (oob \/ i[t] \notin DOMAIN v1)
          /\ i' = [i EXCEPT ![t] = @ + 1]
          /\ pc' = pc
     ELSE /\ pc' = [pc EXCEPT ![t] = "d_sync1"]
          /\ UNCHANGED <<heap, memflags, i>>
  /\ UNCHANGED <<inputs, driver, callback,
                 addstate, round, thread_results, shared_data, dotresult, bstate,
                 lastAlloc, frees, dotCall>>

\* for (i = begin_index; i < end_index; ++i) thread_results[tid] += v1[i] * v2[i]
Dot_acc(t) ==
  /\ pc[t] = "d_acc"
  /\ IF i[t] < end_index(t, vsize, tsize)
     THEN /\ \E x \in Load(thread_results[t], t), a \in Elem(v1, i[t]), b \in Elem(v2, i[t]) :
               heap' = Store(thread_results[t], t, x + a * b)
          /\ badAccess' = (badAccess \/ ~Valid(thread_results[t]))
          /\ oob' = (oob \/ i[t] \notin DOMAIN v1)
          /\ i' = [i EXCEPT ![t] = @ + 1]
          /\ pc' = pc
     ELSE /\ pc' = [pc EXCEPT ![t] = "d_sync1"]
          /\ UNCHANGED <<heap, memflags, i>>
  /\ UNCHANGED <<inputs, driver, callback,
                 addstate, round, thread_results, shared_data, dotresult, bstate,
                 lastAlloc, frees, dotCall>>

\* variant: the barrier before the reduction is missing
Dot_sync1_skip(t) ==
  /\ pc[t] = "d_sync1"
  /\ NoSync(t, IF t = 0 THEN "d_reduce" ELSE "d_sync2", IF t = 0 THEN 1 ELSE i[t])
  /\ UNCHANGED <<inputs, driver, callback,
                 addstate, round, thread_results, shared_data, heap, dotresult,
                 lastAlloc, frees, dotCall, memflags>>

\* variant: every thread goes on to reduce and to store the result
Dot_sync1_all(t) ==
  /\ pc[t] = "d_sync1"
  /\ mylib_ThreadControl_sync(t, IF t >= 0 THEN "d_reduce" ELSE "d_sync2",
                                 IF t >= 0 THEN 1 ELSE i[t])
  /\ UNCHANGED <<inputs, driver, callback,
                 addstate, round, thread_results, shared_data, heap, dotresult,
                 lastAlloc, frees, dotCall, memflags>>

\* the barrier before the reduction; thread 0 goes on to "for (i = 1; ..."
Dot_sync1(t) ==
  /\ pc[t] = "d_sync1"
  /\ mylib_ThreadControl_sync(t, IF t = 0 THEN "d_reduce" ELSE "d_sync2",
                                 IF t = 0 THEN 1 ELSE i[t])
  /\ UNCHANGED <<inputs, driver, callback,
                 addstate, round, thread_results, shared_data, heap, dotresult,
                 lastAlloc, frees, dotCall, memflags>>

\* variant: the reduction loop stops one slot early (i < tsize - 1)
Dot_reduce_short(t) ==
  /\ pc[t] = "d_reduce"
  /\ IF i[t] < tsize - 1
     THEN /\ \E x \in Load(thread_results[t], 0), y \in Load(thread_results[t], i[t]) :
               heap' = Store(thread_results[t], 0, x + y)
          /\ badAccess' = (badAccess \/ ~Valid(thread_results[t]))
          /\ oob' = oob
          /\ i' = [i EXCEPT ![t] = @ + 1]
          /\ pc' = pc
     ELSE /\ pc' = [pc EXCEPT ![t] = "d_store"]
          /\ UNCHANGED <<heap, memflags, i>>
  /\ UNCHANGED <<inputs, driver, callback,
                 addstate, round, thread_results, shared_data, dotresult, bstate,
                 lastAlloc, frees, dotCall>>

\* thread 0: for (i = 1; i < tsize; ++i) thread_results[0] += thread_results[i]
Dot_reduce(t) ==
  /\ pc[t] = "d_reduce"
  /\ IF i[t] < tsize
     THEN /\ \E x \in Load(thread_results[t], 0), y \in Load(thread_results[t], i[t]) :
               heap' = Store(thread_results[t], 0, x + y)
          /\ badAccess' = (badAccess \/ ~Valid(thread_results[t]))
          /\ oob' = oob
          /\ i' = [i EXCEPT ![t] = @ + 1]
          /\ pc' = pc
     ELSE /\ pc' = [pc EXCEPT ![t] = "d_store"]
          /\ UNCHANGED <<heap, memflags, i>>
  /\ UNCHANGED <<inputs, driver, callback,
                 addstate, round, thread_results, shared_data, dotresult, bstate,
                 lastAlloc, frees, dotCall>>

\* thread 0: *dotresult = thread_results[0]
Dot_store(t) ==
  /\ pc[t] = "d_store"
  /\ \E x \in Load(thread_results[t], 0) : dotresult' = x
  /\ dotCall' = round[t]
  /\ badAccess' = (badAccess \/ ~Valid(thread_results[t]))
  /\ oob' = oob
  /\ pc' = [pc EXCEPT ![t] = "d_sync2"]
  /\ UNCHANGED <<inputs, driver, callback,
                 addstate, round, thread_results, i, shared_data, heap, bstate,
                 lastAlloc, frees>>

\* variant: the barrier after the reduction is missing
Dot_sync2_skip(t) ==
  /\ pc[t] = "d_sync2"
  /\ NoSync(t, "f_sync", i[t])
  /\ UNCHANGED <<inputs, driver, callback,
                 addstate, round, thread_results, shared_data, heap, dotresult,
                 lastAlloc, frees, dotCall, memflags>>

\* the barrier after the reduction, then mylib_ThreadControl_free
Dot_sync2(t) ==
  /\ pc[t] = "d_sync2"
  /\ mylib_ThreadControl_sync(t, "f_sync", i[t])
  /\ UNCHANGED <<inputs, driver, callback,
                 addstate, round, thread_results, shared_data, heap, dotresult,
                 lastAlloc, frees, dotCall, memflags>>

\* ---- mylib_vector_add ----------------------------------------------------
\* a thread enters mylib_vector_add and computes its indices
Add_call(t) ==
  /\ CanCall(t) /\ prog[round[t] + 1] = "add"
  /\ round' = [round EXCEPT ![t] = @ + 1]
  /\ i' = [i EXCEPT ![t] = begin_index(t, vsize, tsize)]
  /\ pc' = [pc EXCEPT ![t] = "a_loop"]
  /\ UNCHANGED <<inputs, driver, callback,
                 addstate, thread_results, shared_data, heap, dotresult,
                 bstate, lastAlloc, frees, dotCall, memflags>>

\* variant: the second summand is dropped
Add_loop_copy(t) ==
  /\ pc[t] = "a_loop"
  /\ IF i[t] < end_index(t, vsize, tsize)
     THEN /\ IF i[t] \in DOMAIN vresult
             THEN /\ vresult' = [vresult EXCEPT ![i[t]] = v1[i[t]]]
                  /\ writers' = [writers EXCEPT ![i[t]] = Append(@, t)]
                  /\ UNCHANGED oob
             ELSE /\ oob' = TRUE
                  /\ UNCHANGED <<vresult, writers>>
          /\ i' = [i EXCEPT ![t] = @ + 1]
          /\ pc' = pc
     ELSE /\ pc' = [pc EXCEPT ![t] = "returned"]
          /\ UNCHANGED <<vresult, writers, oob, i>>
  /\ UNCHANGED <<inputs, driver, callback,
                 round, thread_results, shared_data, heap, dotresult,
                 bstate, lastAlloc, frees, dotCall, badAccess>>

\* for (i = begin_index; i < end_index; ++i) vresult[i] = v1[i] + v2[i]
Add_loop(t) ==
  /\ pc[t] = "a_loop"
  /\ IF i[t] < end_index(t, vsize, tsize)
     THEN /\ IF i[t] \in DOMAIN vresult
             THEN /\ vresult' = [vresult EXCEPT ![i[t]] = v1[i[t]] + v2[i[t]]]
                  /\ writers' = [writers EXCEPT ![i[t]] = Append(@, t)]
                  /\ UNCHANGED oob
             ELSE /\ oob' = TRUE
                  /\ UNCHANGED <<vresult, writers>>
          /\ i' = [i EXCEPT ![t] = @ + 1]
          /\ pc' = pc
     ELSE /\ pc' = [pc EXCEPT ![t] = "returned"]
          /\ UNCHANGED <<vresult, writers, oob, i>>
  /\ UNCHANGED <<inputs, driver, callback,
                 round, thread_results, shared_data, heap, dotresult,
                 bstate, lastAlloc, frees, dotCall, badAccess>>

\* ---- the C++11 Barrier (src/with_cpp11threads.cpp) -----------------------
\* what every action of one sync callback leaves alone
core == <<vsize, v1, v2, prog, ncalls, pc, round, thread_results, i, shared_data,
          heap, dotresult, bstate, lastAlloc, frees, dotCall, badAccess, oob,
          vresult, writers>>
pthreadstate == <<barrier, status_counter, status, misuse>>
cpp11state == <<threads_left_, counter_, ctr, cond_waiters>>

\* Barrier::threads_required_, the constructor's argument
threads_required_ == tsize

\* mylib_ThreadControl_sync calling cpp11thread_sync calling Barrier::wait
Cpp11_call(t) ==
  /\ sync = "cpp11thread_sync"
  /\ bpc[t] = "idle"
  /\ entered[t] < MaxPhases
  /\ entered' = [entered EXCEPT ![t] = @ + 1]
  /\ bpc' = [bpc EXCEPT ![t] = "w_read"]
  /\ UNCHANGED <<tsize, core, driver, pthreadstate, cpp11state, exited, mutex_>>

\* int ctr = counter_;  (before the lock is taken)
Wait_read(t) ==
  /\ bpc[t] = "w_read"
  /\ ctr' = [ctr EXCEPT ![t] = counter_]
  /\ bpc' = [bpc EXCEPT ![t] = "w_lock"]
  /\ UNCHANGED <<tsize, core, driver, pthreadstate, entered, exited, mutex_,
                 threads_left_, counter_, cond_waiters>>

\* std::unique_lock<std::mutex> lock(mutex_);
Wait_lock(t) ==
  /\ bpc[t] = "w_lock"
  /\ mutex_ = {}
  /\ mutex_' = {t}
  /\ bpc' = [bpc EXCEPT ![t] = "w_dec"]
  /\ UNCHANGED <<tsize, core, driver, pthreadstate, cpp11state, entered, exited>>

\* threads_left_ -= 1; if (threads_left_ == 0)
Wait_dec(t) ==
  /\ bpc[t] = "w_dec"
  /\ threads_left_' = threads_left_ - 1
  /\ bpc' = [bpc EXCEPT ![t] = IF threads_left_' = 0 THEN "w_inc" ELSE "w_pred"]
  /\ UNCHANGED <<tsize, core, driver, pthreadstate, entered, exited, mutex_,
                 counter_, ctr, cond_waiters>>

\* ++counter_;
Wait_inc(t) ==
  /\ bpc[t] = "w_inc"
  /\ counter_' = counter_ + 1
  /\ bpc' = [bpc EXCEPT ![t] = "w_reset"]
  /\ UNCHANGED <<tsize, core, driver, pthreadstate, entered, exited, mutex_,
                 threads_left_, ctr, cond_waiters>>

\* threads_left_ = threads_required_;
Wait_reset(t) ==
  /\ bpc[t] = "w_reset"
  /\ threads_left_' = threads_required_
  /\ bpc' = [bpc EXCEPT ![t] = "w_notify"]
  /\ UNCHANGED <<tsize, core, driver, pthreadstate, entered, exited, mutex_,
                 counter_, ctr, cond_waiters>>

\* condition_.notify_all(): every blocked thread goes on to retake the mutex
Wait_notify(t) ==
  /\ bpc[t] = "w_notify"
  /\ cond_waiters' = {}
  /\ bpc' = [u \in Threads |-> IF u = t THEN "w_unlock"
                               ELSE IF u \in cond_waiters THEN "w_relock"
                               ELSE bpc[u]]
  /\ UNCHANGED <<tsize, core, driver, pthreadstate, entered, exited, mutex_,
                 threads_left_, counter_, ctr>>

\* variant: the predicate of the wait is inverted
Wait_pred_inverted(t) ==
  /\ bpc[t] = "w_pred"
  /\ IF ctr[t] = counter_
       THEN /\ bpc' = [bpc EXCEPT ![t] = "w_unlock"]
            /\ UNCHANGED <<mutex_, cond_waiters>>
       ELSE /\ mutex_' = {}
            /\ cond_waiters' = cond_waiters \cup {t}
            /\ bpc' = [bpc EXCEPT ![t] = "w_blocked"]
  /\ UNCHANGED <<tsize, core, driver, pthreadstate, entered, exited,
                 threads_left_, counter_, ctr>>

\* condition_.wait(lock, [this, ctr] { return ctr != counter_; }): with the
\* mutex held the predicate is evaluated; if it is false the thread releases
\* the mutex and blocks
Wait_pred(t) ==
  /\ bpc[t] = "w_pred"
  /\ IF ctr[t] /= counter_
       THEN /\ bpc' = [bpc EXCEPT ![t] = "w_unlock"]
            /\ UNCHANGED <<mutex_, cond_waiters>>
       ELSE /\ mutex_' = {}
            /\ cond_waiters' = cond_waiters \cup {t}
            /\ bpc' = [bpc EXCEPT ![t] = "w_blocked"]
  /\ UNCHANGED <<tsize, core, driver, pthreadstate, entered, exited,
                 threads_left_, counter_, ctr>>

\* a condition variable may wake a blocked thread without a notification
Wait_spurious(t) ==
  /\ bpc[t] = "w_blocked"
  /\ t \in cond_waiters
  /\ cond_waiters' = cond_waiters \ {t}
  /\ bpc' = [bpc EXCEPT ![t] = "w_relock"]
  /\ UNCHANGED <<tsize, core, driver, pthreadstate, entered, exited, mutex_,
                 threads_left_, counter_, ctr>>

\* variant: a woken thread returns without evaluating the predicate
Wait_relock_return(t) ==
  /\ bpc[t] = "w_relock"
  /\ mutex_ = {}
  /\ mutex_' = {t}
  /\ bpc' = [bpc EXCEPT ![t] = "w_unlock"]
  /\ UNCHANGED <<tsize, core, driver, pthreadstate, cpp11state, entered, exited>>

\* a woken thread retakes the mutex before the predicate is evaluated again
Wait_relock(t) ==
  /\ bpc[t] = "w_relock"
  /\ mutex_ = {}
  /\ mutex_' = {t}
  /\ bpc' = [bpc EXCEPT ![t] = "w_pred"]
  /\ UNCHANGED <<tsize, core, driver, pthreadstate, cpp11state, entered, exited>>

\* the lock goes out of scope and wait() returns
Wait_unlock(t) ==
  /\ bpc[t] = "w_unlock"
  /\ mutex_' = {}
  /\ exited' = [exited EXCEPT ![t] = @ + 1]
  /\ bpc' = [bpc EXCEPT ![t] = "idle"]
  /\ UNCHANGED <<tsize, core, driver, pthreadstate, cpp11state, entered>>

\* ---- pthread_sync (src/with_pthread.c) -----------------------------------
UCharRange == 256    \* unsigned char status_counter counts modulo 2^8

\* mylib_ThreadControl_sync calling pthread_sync
Psync_call(t) ==
  /\ sync = "pthread_sync"
  /\ bpc[t] = "idle"
  /\ entered[t] < MaxPhases
  /\ entered' = [entered EXCEPT ![t] = @ + 1]
  /\ bpc' = [bpc EXCEPT ![t] = "p_read"]
  /\ UNCHANGED <<tsize, core, driver, pthreadstate, cpp11state, exited, mutex_>>

\* unsigned char status = barrier_data->status_counter;  (no lock held)
Psync_read(t) ==
  /\ bpc[t] = "p_read"
  /\ status' = [status EXCEPT ![t] = status_counter]
  /\ bpc' = [bpc EXCEPT ![t] = "p_wait"]
  /\ UNCHANGED <<tsize, core, driver, cpp11state, entered, exited, mutex_,
                 barrier, status_counter, misuse>>

\* pthread_barrier_wait(my_barrier): the tsize-th arrival releases everyone.
\* Waiting on a barrier that is not initialised is undefined: the thread may
\* block for good or go on.
Psync_wait(t) ==
  /\ bpc[t] = "p_wait"
  /\ IF ~barrier.init
       THEN /\ misuse' = TRUE
            /\ \E b \in {"p_stuck", "p_lock"} : bpc' = [bpc EXCEPT ![t] = b]
            /\ UNCHANGED barrier
       ELSE IF Cardinality(barrier.blocked) + 1 = tsize
         THEN /\ barrier' = [barrier EXCEPT !.blocked = {}]
              /\ bpc' = [u \in Threads |->
                           IF u = t \/ u \in barrier.blocked THEN "p_lock" ELSE bpc[u]]
              /\ UNCHANGED misuse
         ELSE /\ barrier' = [barrier EXCEPT !.blocked = @ \cup {t}]
              /\ bpc' = [bpc EXCEPT ![t] = "p_blocked"]
              /\ UNCHANGED misuse
  /\ UNCHANGED <<tsize, core, driver, cpp11state, entered, exited, mutex_,
                 status_counter, status>>

\* pthread_mutex_lock(my_mutex);
Psync_lock(t) ==
  /\ bpc[t] = "p_lock"
  /\ mutex_ = {}
  /\ mutex_' = {t}
  /\ bpc' = [bpc EXCEPT ![t] = "p_test"]
  /\ UNCHANGED <<tsize, core, driver, pthreadstate, cpp11state, entered, exited>>

\* variant: every thread resets the barrier
Psync_test_always(t) ==
  /\ bpc[t] = "p_test"
  /\ bpc' = [bpc EXCEPT ![t] = "p_destroy"]
  /\ UNCHANGED <<tsize, core, driver, pthreadstate, cpp11state, entered, exited,
                 mutex_>>

\* if (barrier_data->status_counter == status)
Psync_test(t) ==
  /\ bpc[t] = "p_test"
  /\ bpc' = [bpc EXCEPT ![t] = IF status_counter = status[t] THEN "p_destroy"
                                                             ELSE "p_unlock"]
  /\ UNCHANGED <<tsize, core, driver, pthreadstate, cpp11state, entered, exited,
                 mutex_>>

\* pthread_barrier_destroy(my_barrier): undefined while a thread is blocked on
\* the barrier or when the barrier is not initialised
Psync_destroy(t) ==
  /\ bpc[t] = "p_destroy"
  /\ misuse' = (misuse \/ barrier.blocked /= {} \/ ~barrier.init)
  /\ barrier' = [barrier EXCEPT !.init = FALSE]
  /\ bpc' = [bpc EXCEPT ![t] = "p_init"]
  /\ UNCHANGED <<tsize, core, driver, cpp11state, entered, exited, mutex_,
                 status_counter, status>>

\* pthread_barrier_init(my_barrier, NULL, tsize); barrier_data->barrier = my_barrier;
\* undefined on a barrier that is already initialised
Psync_init(t) ==
  /\ bpc[t] = "p_init"
  /\ misuse' = (misuse \/ barrier.init)
  /\ barrier' = [init |-> TRUE, blocked |-> {}]
  /\ bpc' = [bpc EXCEPT ![t] = "p_inc"]
  /\ UNCHANGED <<tsize, core, driver, cpp11state, entered, exited, mutex_,
                 status_counter, status>>

\* variant: the counter stops at its largest value instead of wrapping
Psync_inc_saturating(t) ==
  /\ bpc[t] = "p_inc"
  /\ status_counter' = IF status_counter + 1 < UCharRange THEN status_counter + 1
                                                            ELSE status_counter
  /\ bpc' = [bpc EXCEPT ![t] = "p_unlock"]
  /\ UNCHANGED <<tsize, core, driver, cpp11state, entered, exited, mutex_,
                 barrier, status, misuse>>

\* barrier_data->status_counter += 1;
Psync_inc(t) ==
  /\ bpc[t] = "p_inc"
  /\ status_counter' = (status_counter + 1) % UCharRange
  /\ bpc' = [bpc EXCEPT ![t] = "p_unlock"]
  /\ UNCHANGED <<tsize, core, driver, cpp11state, entered, exited, mutex_,
                 barrier, status, misuse>>

\* pthread_mutex_unlock(my_mutex); and pthread_sync returns
Psync_unlock(t) ==
  /\ bpc[t] = "p_unlock"
  /\ mutex_' = {}
  /\ exited' = [exited EXCEPT ![t] = @ + 1]
  /\ bpc' = [bpc EXCEPT ![t] = "idle"]
  /\ UNCHANGED <<tsize, core, driver, pthreadstate, cpp11state, entered>>

\* ---- the system ---------------------------------------------------------
\* the drivers' data: v1[i] = i, v2[i] = N - i
DriverV1(n) == [k \in 0..(n - 1) |-> k]
DriverV2(n) == [k \in 0..(n - 1) |-> n - k]

\* the state of mylib's own data when the threads start, the inputs being chosen
CoreData ==
  /\ round = [t \in Threads |-> 0]
  /\ thread_results = [t \in Threads |-> NULL]
  /\ i = [t \in Threads |-> 0]
  /\ heap = [a \in Addr |-> [live |-> FALSE, owner |-> 0, data |-> EmptyCells]]
  /\ dotresult = Undef
  /\ bstate = [t \in Threads |-> "out"]
  /\ lastAlloc = [call |-> 0, addr |-> NULL]
  /\ frees = [k \in 0..MaxCalls |-> 0]
  /\ dotCall = 0
  /\ badAccess = FALSE
  /\ oob = FALSE
  /\ vresult = [k \in 0..(vsize - 1) |-> Undef]
  /\ writers = [k \in 0..(vsize - 1) |-> <<>>]

CoreStart ==
  /\ pc = [t \in Threads |-> "start"]
  /\ CoreData

\* no thread is inside a sync callback
CallbackIdle ==
  /\ entered = [t \in Threads |-> 0]
  /\ exited = [t \in Threads |-> 0]
  /\ mutex_ = {}
  /\ ctr = [t \in Threads |-> 0]
  /\ cond_waiters = {}
  /\ status = [t \in Threads |-> 0]
  /\ misuse = FALSE

\* the C++11 Barrier and the pthread barrier do not exist in the OpenMP driver
OpenMPCallback ==
  /\ bpc = [t \in Threads |-> "off"]
  /\ threads_left_ = 0
  /\ counter_ = 0
  /\ barrier = [init |-> FALSE, blocked |-> {}]
  /\ status_counter = 0
  /\ CallbackIdle

\* the state the OpenMP driver hands to the threads: openmp_sync registered
\* (sync_data is never assigned there and openmp_sync never reads it: one
\* indeterminate value stands for all), every participant present
Start ==
  /\ CoreStart
  /\ OpenMPCallback
  /\ sync = "openmp_sync"
  /\ sync_data = "junk"
  /\ main_pc = "spawned"
  /\ stall = [tid |-> tsize, round |-> 0, pc |-> "none"]

\* mylib_ThreadFactory_create leaves shared_data as malloc returned it.
\* Every thread makes MaxCalls collective calls, the drivers' vectors as data.
Init ==
  /\ tsize \in 1..MaxThreads
  /\ vsize \in 0..MaxVSize
  /\ v1 = DriverV1(vsize)
  /\ v2 = DriverV2(vsize)
  /\ ncalls = MaxCalls
  /\ prog \in [1..MaxCalls -> Ops]
  /\ shared_data \in {NULL} \cup Addr
  /\ Start

\* one mylib_vector_dot call on arbitrary vectors
InitDot ==
  /\ tsize \in 1..MaxThreads
  /\ vsize \in 0..MaxVSize
  /\ v1 \in [0..(vsize - 1) -> Vals]
  /\ v2 = DriverV2(vsize)
  /\ ncalls = 1
  /\ prog = [k \in 1..1 |-> "dot"]
  /\ shared_data \in {NULL} \cup Addr
  /\ Start

\* repeated shared_malloc / shared_free pairs
InitMF ==
  /\ tsize \in 1..MaxThreads
  /\ vsize = 0
  /\ v1 = DriverV1(vsize)
  /\ v2 = DriverV2(vsize)
  /\ ncalls = MaxCalls
  /\ prog = [k \in 1..MaxCalls |-> "mf"]
  /\ shared_data \in {NULL} \cup Addr
  /\ Start

\* one mylib_vector_add call on the drivers' vectors
InitAdd ==
  /\ tsize \in 1..MaxT
  /\ vsize \in 0..MaxN
  /\ v1 = DriverV1(vsize)
  /\ v2 = DriverV2(vsize)
  /\ ncalls = 1
  /\ prog = [k \in 1..1 |-> "add"]
  /\ shared_data = NULL
  /\ Start

Next ==
  \/ \E t \in Threads : Dot_call(t)
  \/ \E t \in Threads : MF_call(t)
  \/ \E t \in Threads : Malloc_sync1(t)
  \/ \E t \in Threads : Malloc_alloc(t)
  \/ \E t \in Threads : Malloc_sync2(t)
  \/ \E t \in Threads : Malloc_ret(t)
  \/ \E t \in Threads : Dot_zero(t)
  \/ \E t \in Threads : Dot_acc(t)
  \/ \E t \in Threads : Dot_sync1(t)
  \/ \E t \in Threads : Dot_reduce(t)
  \/ \E t \in Threads : Dot_store(t)
  \/ \E t \in Threads : Dot_sync2(t)
  \/ \E t \in Threads : Free_sync(t)
  \/ \E t \in Threads : Free_free(t)

\* the steps of thread t
Step(t) ==
  /\ t \in Threads
  /\ \/ Dot_call(t) \/ MF_call(t) \/ Add_call(t) \/ Add_loop(t)
     \/ Malloc_sync1(t) \/ Malloc_alloc(t) \/ Malloc_sync2(t) \/ Malloc_ret(t)
     \/ Dot_zero(t) \/ Dot_acc(t) \/ Dot_sync1(t) \/ Dot_reduce(t)
     \/ Dot_store(t) \/ Dot_sync2(t) \/ Free_sync(t) \/ Free_free(t)

NextDot ==
  \/ \E t \in Threads : Dot_call(t)
  \/ \E t \in Threads : Malloc_sync1(t)
  \/ \E t \in Threads : Malloc_alloc(t)
  \/ \E t \in Threads : Malloc_sync2(t)
  \/ \E t \in Threads : Malloc_ret(t)
  \/ \E t \in Threads : Dot_zero(t)
  \/ \E t \in Threads : Dot_acc(t)
  \/ \E t \in Threads : Dot_sync1(t)
  \/ \E t \in Threads : Dot_reduce(t)
  \/ \E t \in Threads : Dot_store(t)
  \/ \E t \in Threads : Dot_sync2(t)
  \/ \E t \in Threads : Free_sync(t)
  \/ \E t \in Threads : Free_free(t)

NextMF ==
  \/ \E t \in Threads : MF_call(t)
  \/ \E t \in Threads : Malloc_sync1(t)
  \/ \E t \in Threads : Malloc_alloc(t)
  \/ \E t \in Threads : Malloc_sync2(t)
  \/ \E t \in Threads : Malloc_ret(t)
  \/ \E t \in Threads : Free_sync(t)
  \/ \E t \in Threads : Free_free(t)

NextAdd ==
  \/ \E t \in Threads : Add_call(t)
  \/ \E t \in Threads : Add_loop(t)

\* every thread that can take a step eventually takes one
Fairness == \A t \in 0..(MaxThreads - 1) : WF_vars(Step(t))

Spec    == Init /\ [][Next]_vars
SpecDot == InitDot /\ [][NextDot]_vars
SpecMF  == InitMF /\ [][NextMF]_vars /\ Fairness
SpecAdd == InitAdd /\ [][NextAdd]_vars

\* ---- the runs of one sync callback --------------------------------------
\* mylib's own data when only mylib_ThreadControl_sync is called
CoreUnused ==
  /\ vsize = 0
  /\ v1 = DriverV1(vsize)
  /\ v2 = DriverV2(vsize)
  /\ ncalls = 0
  /\ prog = [k \in 1..ncalls |-> "dot"]
  /\ shared_data = NULL
  /\ CoreStart
  /\ main_pc = "spawned"

\* the C++11 driver: Barrier thread_barrier(num_threads), registered as sync_data
Cpp11Start ==
  /\ sync = "cpp11thread_sync"
  /\ sync_data = "thread_barrier"
  /\ bpc = [t \in Threads |-> "idle"]
  /\ threads_left_ = tsize
  /\ counter_ = 0
  /\ barrier = [init |-> FALSE, blocked |-> {}]
  /\ status_counter = 0
  /\ CallbackIdle

InitCpp11 ==
  /\ tsize \in 1..MaxThreads
  /\ CoreUnused
  /\ Cpp11Start
  /\ stall = [tid |-> tsize, round |-> 0, pc |-> "none"]

NextCpp11 ==
  \/ \E t \in Threads : Cpp11_call(t)
  \/ \E t \in Threads : Wait_read(t)
  \/ \E t \in Threads : Wait_lock(t)
  \/ \E t \in Threads : Wait_dec(t)
  \/ \E t \in Threads : Wait_inc(t)
  \/ \E t \in Threads : Wait_reset(t)
  \/ \E t \in Threads : Wait_notify(t)
  \/ \E t \in Threads : Wait_pred(t)
  \/ \E t \in Threads : Wait_spurious(t)
  \/ \E t \in Threads : Wait_relock(t)
  \/ \E t \in Threads : Wait_unlock(t)

SpecCpp11 == InitCpp11 /\ [][NextCpp11]_vars

\* the values of status_counter at the start of the phases observed: the
\* driver's initial value, and the last value before the unsigned char wraps
StatusStart == {1, UCharRange - 1}

\* the pthread driver: barrier and mutex initialised, registered as sync_data
PthreadStart ==
  /\ sync = "pthread_sync"
  /\ sync_data = "barrier_data"
  /\ bpc = [t \in Threads |-> "idle"]
  /\ barrier = [init |-> TRUE, blocked |-> {}]
  /\ status_counter \in StatusStart
  /\ threads_left_ = 0
  /\ counter_ = 0
  /\ CallbackIdle

InitPthread ==
  /\ tsize \in 1..MaxThreads
  /\ CoreUnused
  /\ PthreadStart
  /\ stall = [tid |-> tsize, round |-> 0, pc |-> "none"]

NextPthread ==
  \/ \E t \in Threads : Psync_call(t)
  \/ \E t \in Threads : Psync_read(t)
  \/ \E t \in Threads : Psync_wait(t)
  \/ \E t \in Threads : Psync_lock(t)
  \/ \E t \in Threads : Psync_test(t)
  \/ \E t \in Threads : Psync_destroy(t)
  \/ \E t \in Threads : Psync_init(t)
  \/ \E t \in Threads : Psync_inc(t)
  \/ \E t \in Threads : Psync_unlock(t)

SpecPthread == InitPthread /\ [][NextPthread]_vars

\* ---- the drivers' end-to-end run -----------------------------------------
DriverN == 10        \* N of the drivers
DriverThreads == 4   \* num_threads of the drivers

\* one mylib_vector_dot call on the drivers' vectors of length N, by
\* num_threads threads and by one thread fewer (an uneven split)
InitScenario ==
  /\ tsize \in {DriverThreads - 1, DriverThreads}
  /\ vsize = DriverN
  /\ v1 = DriverV1(vsize)
  /\ v2 = DriverV2(vsize)
  /\ ncalls = 1
  /\ prog = [k \in 1..1 |-> "dot"]
  /\ shared_data \in {NULL} \cup Addr
  /\ Start

SpecScenario == InitScenario /\ [][NextDot]_vars

\* ---- the life of the factory in the OpenMP driver -------------------------
\* what an indeterminate pointer field may hold
Junk == {"NULL", "junk"}

\* mylib_ThreadFactory_create: *tfactory = malloc(sizeof(...)), no field is
\* assigned, so each holds whatever the block held
mylib_ThreadFactory_create ==
  /\ main_pc = "begin"
  /\ sync' \in Junk
  /\ sync_data' \in Junk
  /\ shared_data' \in {NULL} \cup Addr
  /\ main_pc' = "created"
  /\ UNCHANGED <<inputs, callback, addstate, memflags, stall, pc, round,
                 thread_results, i, heap, dotresult, bstate, lastAlloc, frees,
                 dotCall>>

\* tfactory->sync = openmp_sync;
Driver_register ==
  /\ main_pc = "created"
  /\ sync' = "openmp_sync"
  /\ main_pc' = "registered"
  /\ UNCHANGED <<inputs, callback, addstate, memflags, stall, sync_data, pc, round,
                 thread_results, i, shared_data, heap, dotresult, bstate, lastAlloc,
                 frees, dotCall>>

\* #pragma omp parallel, threads_init: every thread gets its ThreadControl
Driver_spawn ==
  /\ main_pc = "registered"
  /\ pc' = [t \in Threads |-> "start"]
  /\ main_pc' = "spawned"
  /\ UNCHANGED <<inputs, callback, addstate, memflags, stall, sync, sync_data,
                 round, thread_results, i, shared_data, heap, dotresult, bstate,
                 lastAlloc, frees, dotCall>>

\* before mylib_ThreadFactory_create there is no factory: the three fields
\* stand for nothing yet
InitFactory ==
  /\ tsize \in 1..MaxThreads
  /\ vsize = 0
  /\ v1 = DriverV1(vsize)
  /\ v2 = DriverV2(vsize)
  /\ ncalls = MaxCalls
  /\ prog = [k \in 1..MaxCalls |-> "mf"]
  /\ main_pc = "begin"
  /\ sync = "NULL"
  /\ sync_data = "NULL"
  /\ shared_data = NULL
  /\ pc = [t \in Threads |-> "unborn"]
  /\ CoreData
  /\ OpenMPCallback
  /\ stall = [tid |-> tsize, round |-> 0, pc |-> "none"]

NextFactory ==
  \/ mylib_ThreadFactory_create
  \/ Driver_register
  \/ Driver_spawn
  \/ NextMF

SpecFactory == InitFactory /\ [][NextFactory]_vars

\* ---- allocation failure ---------------------------------------------------
\* if (tcontrol->tid == 0) shared_data = malloc(num_bytes), malloc returning NULL
Malloc_fail(t) ==
  /\ pc[t] = "m_alloc"
  /\ shared_data' = NULL
  /\ lastAlloc' = [call |-> round[t], addr |-> NULL]
  /\ pc' = [pc EXCEPT ![t] = "m_sync2"]
  /\ UNCHANGED <<inputs, driver, callback, addstate, round, thread_results, i, heap,
                 dotresult, bstate, frees, dotCall, memflags>>

\* one mylib_vector_dot call on the drivers' vectors
InitOOM ==
  /\ tsize \in 1..MaxThreads
  /\ vsize \in 0..MaxVSize
  /\ v1 = DriverV1(vsize)
  /\ v2 = DriverV2(vsize)
  /\ ncalls = 1
  /\ prog = [k \in 1..1 |-> "dot"]
  /\ shared_data \in {NULL} \cup Addr
  /\ Start

NextOOM ==
  \/ NextDot
  \/ \E t \in Threads : Malloc_fail(t)

FairnessOOM ==
  \A t \in 0..(MaxThreads - 1) : WF_vars(Step(t) \/ (t \in Threads /\ Malloc_fail(t)))

SpecOOM == InitOOM /\ [][NextOOM]_vars /\ FairnessOOM

\* ---- a participant that never reaches a barrier ---------------------------
\* the places where mylib.c calls mylib_ThreadControl_sync
SyncSites == {"m_sync1", "m_sync2", "d_sync1", "d_sync2", "f_sync"}

\* thread t is the one that never makes the sync call it is about to make:
\* the one at position stall.pc of its call stall.round, or, with only
\* mylib_ThreadControl_sync being called, its call number stall.round
Stalled(t) ==
  /\ t = stall.tid
  /\ \/ /\ pc[t] = stall.pc
        /\ round[t] = stall.round
        /\ bstate[t] = "out"
     \/ /\ stall.pc = "sync"
        /\ bpc[t] = "idle"
        /\ entered[t] = stall.round - 1

\* consecutive mylib_vector_dot calls on the OpenMP barrier
InitStallOpenMP ==
  /\ tsize \in 1..MaxThreads
  /\ vsize = 1
  /\ v1 = DriverV1(vsize)
  /\ v2 = DriverV2(vsize)
  /\ ncalls = MaxCalls
  /\ prog = [k \in 1..MaxCalls |-> "dot"]
  /\ shared_data = NULL
  /\ CoreStart
  /\ OpenMPCallback
  /\ sync = "openmp_sync"
  /\ sync_data = "junk"
  /\ main_pc = "spawned"
  /\ \E t \in Threads, k \in 1..MaxCalls, l \in SyncSites :
       stall = [tid |-> t, round |-> k, pc |-> l]

\* consecutive mylib_ThreadControl_sync calls on the C++11 Barrier
InitStallCpp11 ==
  /\ tsize \in 1..MaxThreads
  /\ CoreUnused
  /\ Cpp11Start
  /\ \E t \in Threads, k \in 1..MaxPhases :
       stall = [tid |-> t, round |-> k, pc |-> "sync"]

InitStall == InitStallOpenMP \/ InitStallCpp11

NextStall ==
  \/ \E t \in Threads : ~Stalled(t) /\ Dot_call(t)
  \/ \E t \in Threads : ~Stalled(t) /\ Malloc_sync1(t)
  \/ \E t \in Threads : ~Stalled(t) /\ Malloc_alloc(t)
  \/ \E t \in Threads : ~Stalled(t) /\ Malloc_sync2(t)
  \/ \E t \in Threads : ~Stalled(t) /\ Malloc_ret(t)
  \/ \E t \in Threads : ~Stalled(t) /\ Dot_zero(t)
  \/ \E t \in Threads : ~Stalled(t) /\ Dot_acc(t)
  \/ \E t \in Threads : ~Stalled(t) /\ Dot_sync1(t)
  \/ \E t \in Threads : ~Stalled(t) /\ Dot_reduce(t)
  \/ \E t \in Threads : ~Stalled(t) /\ Dot_store(t)
  \/ \E t \in Threads : ~Stalled(t) /\ Dot_sync2(t)
  \/ \E t \in Threads : ~Stalled(t) /\ Free_sync(t)
  \/ \E t \in Threads : ~Stalled(t) /\ Free_free(t)
  \/ \E t \in Threads : ~Stalled(t) /\ Cpp11_call(t)
  \/ \E t \in Threads : ~Stalled(t) /\ Wait_read(t)
  \/ \E t \in Threads : ~Stalled(t) /\ Wait_lock(t)
  \/ \E t \in Threads : ~Stalled(t) /\ Wait_dec(t)
  \/ \E t \in Threads : ~Stalled(t) /\ Wait_inc(t)
  \/ \E t \in Threads : ~Stalled(t) /\ Wait_reset(t)
  \/ \E t \in Threads : ~Stalled(t) /\ Wait_notify(t)
  \/ \E t \in Threads : ~Stalled(t) /\ Wait_pred(t)
  \/ \E t \in Threads : ~Stalled(t) /\ Wait_spurious(t)
  \/ \E t \in Threads : ~Stalled(t) /\ Wait_relock(t)
  \/ \E t \in Threads : ~Stalled(t) /\ Wait_unlock(t)

SpecStall == InitStall /\ [][NextStall]_vars

\* ---- consecutive dot products, every thread scheduled ---------------------
\* consecutive mylib_vector_dot calls on the drivers' vectors, some threads
\* (or all) with an empty range
InitDotFair ==
  /\ tsize \in 1..MaxThreads
  /\ vsize \in {0, 1}
  /\ v1 = DriverV1(vsize)
  /\ v2 = DriverV2(vsize)
  /\ ncalls = MaxCalls
  /\ prog = [k \in 1..MaxCalls |-> "dot"]
  /\ shared_data = NULL
  /\ Start

SpecDotFair == InitDotFair /\ [][NextDot]_vars /\ Fairness

\* ---- both kernels ---------------------------------------------------------
\* one call of mylib_vector_dot or of mylib_vector_add
InitKernels == InitDot \/ InitAdd

NextKernels == NextDot \/ NextAdd

SpecKernels == InitKernels /\ [][NextKernels]_vars

\* ---- properties ---------------------------------------------------------
Min(a, b) == IF a < b THEN a ELSE b
Max(a, b) == IF a > b THEN a ELSE b

\* positions of a thread that holds the pointer malloc returned in this call
AfterMalloc == {"d_zero", "d_acc", "d_sync1", "d_reduce", "d_store", "d_sync2",
                "f_sync", "f_free"}

AllReturned == \A t \in Threads : pc[t] = "returned" /\ round[t] = ncalls

\* thread t has returned from its k-th collective call
ReturnedFrom(t, k) == round[t] > k \/ (round[t] = k /\ pc[t] = "returned")

DotSum == SumProd(v1, v2, 0..(vsize - 1))

Live == {a \in Addr : heap[a].live}

\* C1: after shared_malloc every participant holds the same address, and it
\* is the block thread 0 allocated in this very call (not an earlier call's
\* address, not a value read before thread 0 stored it).
C1_SameFreshAddress ==
  \A t \in Threads :
    pc[t] \in AfterMalloc =>
      /\ lastAlloc.call = round[t]
      /\ thread_results[t] = lastAlloc.addr
      /\ thread_results[t] \in Addr
      /\ heap[thread_results[t]].owner = round[t]
      /\ \A u \in Threads :
           pc[u] \in AfterMalloc => thread_results[u] = thread_results[t]

C1_Witness ==
  /\ tsize >= 2
  /\ \A t \in Threads : pc[t] \in AfterMalloc /\ round[t] = 2
  /\ \A t \in Threads : thread_results[t] = lastAlloc.addr

\* C2: whenever a thread has returned from mylib_vector_dot, *dotresult holds
\* the final reduced value that thread 0 wrote in that call.
C2_ResultValidOnReturn ==
  \A t \in Threads :
    (pc[t] = "returned" /\ prog[round[t]] = "dot") =>
      /\ dotCall = round[t]
      /\ dotresult = DotSum

C2_Witness ==
  /\ tsize >= 2 /\ vsize >= 2
  /\ pc[1] = "returned" /\ round[1] = 2 /\ prog[2] = "dot"
  /\ pc[0] = "f_sync"
  /\ dotresult = DotSum

\* C3: while thread 0 reduces, every other thread i has zeroed its slot and
\* accumulated its whole range into it: the slot thread 0 reads holds the
\* complete partial sum of thread i.
C3_ReduceReadsComplete ==
  (pc[0] = "d_reduce") =>
    \A j \in Threads \ {0} :
      /\ round[j] = round[0]
      /\ pc[j] \in {"d_sync1", "d_sync2"}
      /\ Valid(thread_results[0])
      /\ heap[thread_results[0]].data[j] = SumProd(v1, v2, Range(j, vsize, tsize))

C3_Witness ==
  /\ tsize >= 3 /\ vsize >= 3
  /\ pc[0] = "d_reduce" /\ i[0] = 2
  /\ heap[thread_results[0]].data[2] > 0

\* C4: no load or store of the scratch buffer goes to a block that is not
\* allocated (before its malloc or after its free).
C4_NoAccessAfterFree == ~badAccess

C4_Witness ==
  /\ tsize >= 2
  /\ \E t \in Threads \ {0} : pc[t] = "d_acc" /\ round[t] = 2 /\ i[t] > begin_index(t, vsize, tsize)
  /\ frees[1] = 1
  /\ prog[1] = "dot"

\* C5: the value mylib_vector_dot stores in the output is the sum of
\* v1[k] * v2[k] over k in 0..vsize-1, for every tsize (so tsize = 1 and
\* tsize > 1 give the same result).
C5_DotIsSum == (dotCall >= 1) => (dotresult = DotSum)

C5_Witness ==
  /\ tsize >= 3 /\ vsize >= 3
  /\ AllReturned
  /\ dotCall = 1 /\ dotresult = DotSum /\ dotresult > 0

\* the threads that wrote vresult[k]
WritersOf(k) == {writers[k][n] : n \in 1..Len(writers[k])}

\* number of indices thread t has processed in mylib_vector_add
Count(t) == Cardinality({k \in DOMAIN writers : t \in WritersOf(k)})

\* C6: the ranges of the tsize threads partition 0..vsize-1: every index is
\* processed by exactly one thread, none twice, none outside 0..vsize-1.
C6_ExactPartition ==
  /\ ~oob
  /\ \A k \in 0..(vsize - 1) :
       /\ Cardinality({t \in Threads : begin_index(t, vsize, tsize) <= k
                                       /\ k < end_index(t, vsize, tsize)}) = 1
       /\ Len(writers[k]) <= 1
       /\ AllReturned => Len(writers[k]) = 1
  /\ \A t \in Threads :
       begin_index(t, vsize, tsize) < end_index(t, vsize, tsize) =>
         (0 <= begin_index(t, vsize, tsize) /\ end_index(t, vsize, tsize) <= vsize)

C6_Witness ==
  /\ tsize = 3 /\ vsize = 7
  /\ AllReturned
  /\ \A k \in 0..(vsize - 1) : Len(writers[k]) = 1
  /\ Count(0) = 3 /\ Count(1) = 3 /\ Count(2) = 1

\* ceil(vs / ts)
Ceil(vs, ts) == (vs + ts - 1) \div ts

\* C7 as stated: the numbers of indices processed by any two threads differ
\* by at most one.
C7_DifferByAtMostOne ==
  AllReturned =>
    \A t \in Threads : \A u \in Threads :
      Count(t) - Count(u) <= 1 /\ Count(u) - Count(t) <= 1

\* C7 as amended: thread tid processes
\* min(ceil(vsize/tsize), max(0, vsize - tid * ceil(vsize/tsize))) indices; no
\* thread processes more than ceil(vsize/tsize), and the counts of two
\* threads differ by at most ceil(vsize/tsize).
C7_ChunkedCounts ==
  AllReturned =>
    /\ \A t \in Threads :
         Count(t) = Min(Ceil(vsize, tsize), Max(0, vsize - t * Ceil(vsize, tsize)))
    /\ \A t \in Threads : \A u \in Threads :
         Count(t) - Count(u) <= Ceil(vsize, tsize)

C7_Witness ==
  /\ tsize = 3 /\ vsize = 4
  /\ AllReturned
  /\ Count(0) = 2 /\ Count(1) = 2 /\ Count(2) = 0

\* C8: when every participant calls shared_malloc immediately followed by
\* shared_free, any number of times, no interleaving deadlocks: every
\* participant eventually returns from the last shared_free.
C8_PairsTerminate == <>[]AllReturned

C8_Witness ==
  /\ tsize >= 2
  /\ AllReturned
  /\ \A k \in 1..ncalls : prog[k] = "mf" /\ frees[k] = 1

\* C9: once every participant has returned from the shared_free that followed
\* a shared_malloc, the block of that malloc has been released exactly once
\* and the factory's slot refers to no live block (it keeps the stale address).
C9_ReleasedExactlyOnce ==
  /\ \A k \in 0..MaxCalls : frees[k] <= 1
  /\ \A k \in 1..ncalls :
       (prog[k] = "mf" /\ \A t \in Threads : ReturnedFrom(t, k)) =>
         /\ frees[k] = 1
         /\ \A a \in Addr : heap[a].live => heap[a].owner # k
         /\ lastAlloc.call = k => (shared_data = lastAlloc.addr /\ ~Valid(shared_data) /\ Live = {})

C9_Witness ==
  /\ tsize >= 2
  /\ prog[1] = "mf"
  /\ \A t \in Threads : pc[t] = "returned" /\ round[t] = 1
  /\ frees[1] = 1 /\ shared_data \in Addr /\ Live = {}

\* C10: at most one block allocated through the factory is live at any time;
\* thread 0 has freed the previous call's block before it allocates the next.
C10_AtMostOneLive ==
  /\ Cardinality(Live) <= 1
  /\ \A a \in Live : heap[a].owner = lastAlloc.call /\ a = lastAlloc.addr
  /\ \A k \in 1..MaxCalls : k < lastAlloc.call => frees[k] = 1

C10_Witness ==
  /\ tsize >= 2
  /\ prog[1] = "dot" /\ prog[2] = "dot"
  /\ Cardinality(Live) = 1 /\ lastAlloc.call = 2 /\ frees[1] = 1
  /\ \E t \in Threads \ {0} : round[t] = 2 /\ pc[t] = "d_acc"

\* C11: with the C++11 Barrier as sync callback no thread has returned from
\* its k-th Barrier::wait before every thread has entered its k-th call, in
\* every phase; the counter_ a thread sampled before taking the mutex is the
\* number of phases completed before its call, and no thread samples counter_
\* while another is about to increment it.
C11_Cpp11PhasesTogether ==
  /\ \A t \in Threads : \A u \in Threads : exited[t] <= entered[u]
  /\ \A t \in Threads :
       bpc[t] \notin {"idle", "w_read"} => ctr[t] = entered[t] - 1
  /\ \A t \in Threads : \A u \in Threads :
       bpc[t] = "w_read" => bpc[u] /= "w_inc"

\* several threads have all returned from the last of their phases
C11_Witness ==
  /\ tsize > 1
  /\ \A t \in Threads : exited[t] = MaxPhases

\* C12: with pthread_sync as sync callback no thread has returned from its
\* k-th call before every thread has entered its k-th call, in every phase;
\* the barrier is never destroyed while a thread is blocked on it, never
\* waited on or destroyed while not initialised, never initialised twice, and
\* no thread samples status_counter while another is about to increment it.
C12_PthreadPhasesTogether ==
  /\ \A t \in Threads : \A u \in Threads : exited[t] <= entered[u]
  /\ ~misuse
  /\ \A t \in Threads : \A u \in Threads :
       bpc[t] = "p_read" => bpc[u] /= "p_inc"

\* several threads have all returned from the last of their phases, the
\* barrier having been re-initialised after each
C12_Witness ==
  /\ tsize > 1
  /\ \A t \in Threads : exited[t] = MaxPhases
  /\ barrier.init

\* C13 as stated: on a = [0..9], b = [10..1] mylib_vector_dot stores 210,
\* with four threads and with three.
C13_Stores210 == (dotCall >= 1) => (dotresult = 210)

\* C13 as amended: on a = [0..9], b = [10..1] mylib_vector_dot stores
\* 0*10 + 1*9 + ... + 9*1 = 165, with four threads and with three, the ranges
\* of three threads being [0,4), [4,8), [8,10).
C13_Stores165 ==
  /\ DotSum = 165
  /\ (dotCall >= 1) => (dotresult = 165)
  /\ tsize = 3 =>
       /\ begin_index(0, vsize, tsize) = 0 /\ end_index(0, vsize, tsize) = 4
       /\ begin_index(1, vsize, tsize) = 4 /\ end_index(1, vsize, tsize) = 8
       /\ begin_index(2, vsize, tsize) = 8 /\ end_index(2, vsize, tsize) = 10

\* three threads have returned from the call, the result stored
C13_Witness ==
  /\ tsize = 3 /\ vsize = 10
  /\ AllReturned
  /\ dotCall = 1 /\ dotresult = 165

\* C14: mylib_vector_add writes every result[i] at most once, with
\* a[i] + b[i], and never touches a or b; once all threads have returned every
\* result[i] has been written exactly once, by exactly one thread.  On
\* a = [0..9], b = [10..1] with four threads the result is ten times 10.
C14_AddElementwise ==
  /\ v1 = DriverV1(vsize) /\ v2 = DriverV2(vsize)
  /\ \A k \in 0..(vsize - 1) :
       /\ Len(writers[k]) <= 1
       /\ Len(writers[k]) = 0 => vresult[k] = Undef
       /\ Len(writers[k]) = 1 => vresult[k] = v1[k] + v2[k]
       /\ AllReturned => Cardinality(WritersOf(k)) = 1 /\ Len(writers[k]) = 1
  /\ (AllReturned /\ tsize = DriverThreads /\ vsize = DriverN) =>
       vresult = [k \in 0..9 |-> 10]

\* the drivers' run of mylib_vector_add has completed
C14_Witness ==
  /\ tsize = 4 /\ vsize = 10
  /\ AllReturned
  /\ \A k \in 0..9 : vresult[k] = 10 /\ Len(writers[k]) = 1

\* C15: when tsize > vsize (vsize = 0 included) every thread with tid >= vsize
\* has an empty range: it writes no element of the result of mylib_vector_add
\* and adds nothing to its slot in mylib_vector_dot; no access leaves the
\* vectors or the scratch block; and the result is the one that does not
\* depend on tsize: the elementwise sum, the dot product.
C15_SurplusThreadsIdle ==
  (tsize > vsize) =>
    /\ ~oob /\ ~badAccess
    /\ \A t \in Threads : t >= vsize =>
         /\ begin_index(t, vsize, tsize) >= end_index(t, vsize, tsize)
         /\ Count(t) = 0
         /\ pc[t] \in {"d_acc", "d_sync1"} => Load(thread_results[t], t) = {0}
    /\ (AllReturned /\ prog[1] = "dot") => dotresult = DotSum
    /\ (AllReturned /\ prog[1] = "add") =>
         \A k \in 0..(vsize - 1) : vresult[k] = v1[k] + v2[k]

\* a dot product of two elements by three threads has completed
C15_Witness ==
  /\ tsize = 3 /\ vsize = 2
  /\ prog[1] = "dot"
  /\ AllReturned
  /\ dotCall = 1 /\ dotresult = DotSum /\ dotresult > 0

\* C16 as stated: the factory that mylib_ThreadFactory_create yields has no
\* callback registered, no auxiliary data and an empty shared slot, each
\* until the driver or a shared malloc assigns it.
C16_FreshFactoryEmpty ==
  /\ main_pc = "created" => sync = "NULL"
  /\ main_pc /= "begin" => sync_data = "NULL"
  /\ (main_pc /= "begin" /\ lastAlloc.call = 0) => shared_data = NULL

\* thread t exists and is at position l
At(t, l) == t \in Threads /\ pc[t] = l

\* thread t has returned from a malloc in which thread 0's allocation failed
FailedFor(t) ==
  /\ pc[t] \in AfterMalloc
  /\ lastAlloc.call = round[t]
  /\ lastAlloc.addr = NULL

\* C17: when thread 0's allocation fails, every thread passes both barriers
\* of malloc and returns from it, each with the same null address; nothing
\* tells them of the failure, so in mylib_vector_dot each goes on to write
\* its slot through that address.
C17_FailureUnseen ==
  /\ [](\A t \in Threads : FailedFor(t) =>
          /\ thread_results[t] = NULL
          /\ pc[t] /= "d_zero" => badAccess)
  /\ \A t \in 0..(MaxThreads - 1) : At(t, "m_sync1") ~> At(t, "d_zero")

\* after a failed allocation several threads have each written through NULL
C17_Witness ==
  /\ tsize > 1
  /\ \A t \in Threads : FailedFor(t) /\ pc[t] = "d_acc" /\ thread_results[t] = NULL
  /\ badAccess

\* the positions of a thread inside mylib_vector_dot, in program order
PcOrder == <<"start", "m_sync1", "m_alloc", "m_sync2", "m_ret", "d_zero", "d_acc",
             "d_sync1", "d_reduce", "d_store", "d_sync2", "f_sync", "f_free",
             "returned">>

Rank(l) == CHOOSE n \in 1..Len(PcOrder) : PcOrder[n] = l

\* thread u has returned from the sync call that thread stall.tid never makes
PastStall(u) ==
  IF stall.pc = "sync"
    THEN exited[u] >= stall.round
    ELSE \/ round[u] > stall.round
         \/ round[u] = stall.round /\ Rank(pc[u]) > Rank(stall.pc)
         \/ round[u] = stall.round /\ pc[u] = stall.pc /\ bstate[u] = "go"

\* C18: when one of the tsize participants never makes the sync call of some
\* phase, no thread ever returns from that call: there is no time-out and no
\* abort, on the OpenMP barrier and on the C++11 Barrier alike.
C18_PeersStayBlocked == \A u \in Threads : ~PastStall(u)

\* all the peers of the missing thread are blocked in Barrier::wait, in a
\* phase later than the first
C18_Witness ==
  /\ tsize > 1
  /\ stall.pc = "sync" /\ stall.round > 1
  /\ \A u \in Threads \ {stall.tid} :
       entered[u] = stall.round /\ bpc[u] = "w_blocked" /\ u \in cond_waiters

\* the step being taken is a step of thread 0 that leaves position l
StepOfZeroAt(l) ==
  /\ pc[0] = l /\ pc'[0] /= l
  /\ \A t \in Threads \ {0} :
       /\ pc'[t] = pc[t] /\ round'[t] = round[t] /\ i'[t] = i[t]
       /\ thread_results'[t] = thread_results[t]

\* C19: every step that writes tfactory->shared_data, allocates or frees a
\* block, or writes *dotresult is a step of thread 0: the slot is written
\* where thread 0 stands between the two barriers of malloc, a block becomes
\* live there and dead in thread 0's free, the output is written in thread
\* 0's store after the reduction.  No step of a thread with tid /= 0 changes
\* any of them, and no step changes tfactory->sync or tfactory->sync_data.
C19_OnlyThreadZeroWrites ==
  [][ /\ (shared_data' /= shared_data \/ lastAlloc' /= lastAlloc) =>
           StepOfZeroAt("m_alloc")
      /\ (\E a \in Addr : heap'[a].live /\ ~heap[a].live) => StepOfZeroAt("m_alloc")
      /\ (\E a \in Addr : ~heap'[a].live /\ heap[a].live) => StepOfZeroAt("f_free")
      /\ frees' /= frees => StepOfZeroAt("f_free")
      /\ (dotresult' /= dotresult \/ dotCall' /= dotCall) => StepOfZeroAt("d_store")
      /\ sync' = sync /\ sync_data' = sync_data
    ]_vars

\* in its second call thread 0 has allocated, stored the result and freed,
\* with other threads taking part
C19_Witness ==
  /\ tsize > 1
  /\ \A t \in Threads : round[t] = 2 /\ pc[t] = "returned"
  /\ lastAlloc.call = 2 /\ dotCall = 2 /\ frees[2] = 1

\* the position that follows position l in thread t's mylib_vector_dot
NextPc(t, l) ==
  CASE l \in {"start", "returned"} -> "m_sync1"
    [] l = "m_sync1" -> IF t = 0 THEN "m_alloc" ELSE "m_sync2"
    [] l = "d_sync1" -> IF t = 0 THEN "d_reduce" ELSE "d_sync2"
    [] l = "f_sync"  -> IF t = 0 THEN "f_free" ELSE "returned"
    [] l = "f_free"  -> "returned"
    [] OTHER -> PcOrder[Rank(l) + 1]

\* C20: in one mylib_vector_dot every thread, whatever its tid and its range,
\* goes through the five sync calls (two of malloc, Barrier1, Barrier2, the
\* one of free) in this order, leaving each only when the barrier releases
\* it, and skips none; and with every thread scheduled all threads
\* eventually have returned from all their consecutive calls.
C20_FiveSyncsThenDone ==
  /\ [][ \A t \in Threads :
           pc'[t] /= pc[t] =>
             /\ pc'[t] = NextPc(t, pc[t])
             /\ pc[t] \in SyncSites => bstate[t] = "go" /\ bstate'[t] = "out"
      ]_vars
  /\ <>[]AllReturned

\* several threads, one of them with an empty range, have returned from all
\* their calls
C20_Witness ==
  /\ tsize > 1 /\ vsize = 1
  /\ AllReturned
  /\ dotCall = ncalls /\ dotresult = DotSum

\* the block allocated in the call thread 0 is in
BlockOfCall == lastAlloc.addr

\* thread 0 has passed the barrier of free of its current call, or is about
\* to, and has not yet executed free(ptr)
ZeroBeforeFree == pc[0] \in {"f_sync", "f_free"} /\ lastAlloc.call = round[0]

\* C21: free has no barrier after the release.  A thread with tid /= 0 that
\* the barrier of free has released can return at once, whatever thread 0
\* has done; and while thread 0 has not yet executed free(ptr), the block is
\* still live although such threads have already returned from free and from
\* mylib_vector_dot.
C21_ReturnBeforeRelease ==
  \A t \in Threads \ {0} :
    /\ (pc[t] = "f_sync" /\ bstate[t] = "go") =>
         ENABLED (Free_sync(t) /\ pc'[t] = "returned")
    /\ (pc[t] = "returned" /\ round[t] = round[0] /\ ZeroBeforeFree) =>
         (BlockOfCall \in Addr /\ heap[BlockOfCall].live /\ frees[round[0]] = 0)

\* every thread with tid /= 0 has returned from mylib_vector_dot, the result
\* is stored, and thread 0 has yet to release the block
C21_Witness ==
  /\ tsize > 1
  /\ \A t \in Threads \ {0} : pc[t] = "returned" /\ round[t] = 1
  /\ pc[0] = "f_free" /\ round[0] = 1
  /\ dotCall = 1
  /\ heap[BlockOfCall].live /\ frees[1] = 0

\* the threads between the test of pthread_sync and its unlock that reset
\* the barrier
Resetting == {t \in Threads : bpc[t] \in {"p_destroy", "p_init", "p_inc"}}

\* C22: in every phase of pthread_sync the barrier is destroyed and
\* re-initialised and status_counter incremented exactly once: at most one
\* thread resets at a time, it is one that still sees the value it sampled,
\* every thread that returns sees the value it sampled plus one modulo 2^8
\* (so also 0 after 255), and whenever a thread is about to wait, or is
\* blocked, on the barrier, the barrier is initialised, nobody is resetting
\* it and the counter is the one the thread sampled.
C22_OneResetPerPhase ==
  /\ ~misuse
  /\ Cardinality(Resetting) <= 1
  /\ \A t \in Resetting : status_counter = status[t] /\ mutex_ = {t}
  /\ \A t \in Threads :
       /\ bpc[t] = "p_unlock" => status_counter = (status[t] + 1) % UCharRange
       /\ bpc[t] \in {"p_lock", "p_test"} =>
            status_counter \in {status[t], (status[t] + 1) % UCharRange}
       /\ bpc[t] \in {"p_wait", "p_blocked"} =>
            /\ barrier.init
            /\ Resetting = {}
            /\ status_counter = status[t]

\* the counter has wrapped from 255 to 0: one thread has reset the barrier
\* and returned, another, which sampled 255 too, has skipped the reset
C22_Witness ==
  /\ tsize > 1
  /\ status_counter = 0
  /\ barrier.init
  /\ \E t \in Threads : \E u \in Threads \ {t} :
       /\ status[t] = 255 /\ exited[t] = 1 /\ bpc[t] = "idle"
       /\ status[u] = 255 /\ exited[u] = 0 /\ bpc[u] = "p_unlock"
====
